---- MODULE Spec2Model ----
(***************************************************************************)
(* Faceted catalog query engine of the snowboard catalog view              *)
(* (src/src/views/SnowboardCatalog.vue): the two filter snapshots, the     *)
(* debounced search, pagination, and fetchSnowboards with its suspension   *)
(* points at the size, ability-level, terrain-type and main queries.       *)
(*                                                                         *)
(* Conventions of the model.                                               *)
(*  - null is the value Null; a JavaScript array used as a selection is a  *)
(*    set (the code only tests membership and emptiness of selections).    *)
(*  - text is a sequence of character codes: 0 is the space, 1..9 are      *)
(*    lower-case letters and 11..19 the matching upper-case letters.       *)
(*  - of the twelve dimension ranges, which all follow the code pattern of *)
(*    sizeMin/sizeMax, the model keeps size and the rider-weight range     *)
(*    (whose comparison is inverted) and the wide flag.                    *)
(***************************************************************************)
EXTENDS Integers, Sequences, FiniteSets, TLC

(* ------------------------------ bounds --------------------------------- *)
\* number of handler runs that call fetchSnowboards in a behaviour
MaxTriggers == 3
\* number of fetchSnowboards calls in flight at a time
MaxInFlight == 2
\* number of board_model rows of the store
NumBoards == 14
\* boards of a drawn store
MaxItems == 2
\* largest population of a paged store
MaxCount == 25
\* pages requested of a paged store
MaxPage == 4

(* --------------------------- program constants ------------------------- *)
itemsPerPage == 12
Null == -1
NoError == "null"
FailedMessage == "Failed to load snowboards. Please try again later."

(* ------------------------------- text ---------------------------------- *)
\* String.prototype.toLowerCase / the case folding of ilike
Lower(s) == [k \in 1..Len(s) |-> IF s[k] > 10 THEN s[k] - 10 ELSE s[k]]

RECURSIVE TrimLeft(_)
TrimLeft(s) == IF s # <<>> /\ Head(s) = 0 THEN TrimLeft(Tail(s)) ELSE s

RECURSIVE TrimRight(_)
TrimRight(s) ==
    IF s # <<>> /\ s[Len(s)] = 0 THEN TrimRight(SubSeq(s, 1, Len(s) - 1)) ELSE s

\* String.prototype.trim
Trim(s) == TrimRight(TrimLeft(s))

\* model_name ILIKE '%term%'
ILike(name, term) ==
    \E k \in 0..(Len(name) - Len(term)) :
        SubSeq(Lower(name), k + 1, k + Len(term)) = Lower(term)

\* lexicographic order of two texts, case folded
RECURSIVE TextLess(_, _)
TextLess(a, b) ==
    IF a = <<>> THEN b # <<>>
    ELSE IF b = <<>> THEN FALSE
    ELSE IF Head(Lower(a)) # Head(Lower(b)) THEN Head(Lower(a)) < Head(Lower(b))
    ELSE TextLess(Tail(a), Tail(b))

(* ------------------------------ the store ------------------------------ *)
Boards == 1..NumBoards

BrandOptions == { [id |-> 1, name |-> "Burton"], [id |-> 2, name |-> "Jones"] }
ProfileOptions == { [id |-> 1, name |-> "Camber"], [id |-> 2, name |-> "Rocker"] }
ShapeOptions == { [id |-> 1, name |-> "Twin"], [id |-> 2, name |-> "Directional"] }
ResponseOptions == { [id |-> 1, name |-> "Playful"], [id |-> 2, name |-> "Stable"] }
AbilityOptions == { [id |-> 1, name |-> "Beginner"], [id |-> 2, name |-> "Expert"] }
TerrainOptions == { [id |-> 1, name |-> "All Mountain"], [id |-> 2, name |-> "Park"],
                    [id |-> 3, name |-> "Powder"] }

\* one row of the board_catalog view
BoardRow(i) ==
    [ id            |-> i,
      model_name    |-> << IF i % 2 = 0 THEN 11 + ((i - 1) \div 5) ELSE 1 + ((i - 1) \div 5),
                           1 + ((i - 1) % 5) >>,
      model_year    |-> 2026 + (i % 2),
      gender        |-> IF i % 4 = 0 THEN "Womens" ELSE "Mens",
      msrp          |-> CASE i % 3 = 0 -> 150 [] i % 3 = 1 -> 300 [] OTHER -> 600,
      flex_rating   |-> IF i = 5 THEN Null ELSE 1 + (i % 10),
      image_url     |-> "img",
      brand_name    |-> IF i % 2 = 1 THEN "Burton" ELSE "Jones",
      profile       |-> IF i % 3 = 0 THEN "Rocker" ELSE "Camber",
      shape         |-> IF i % 4 < 2 THEN "Twin" ELSE "Directional",
      response_type |-> IF i % 5 < 3 THEN "Playful" ELSE "Stable" ]

\* the rows of the board_sizes_catalog view: two sizes per board, none for the last
SizeRows ==
    { [ board_model_id |-> i, size_cm |-> 150, wide |-> FALSE,
        rider_weight_min_lbs |-> 100, rider_weight_max_lbs |-> 150 ] : i \in 1..(NumBoards - 1) }
    \cup
    { [ board_model_id |-> i, size_cm |-> 160, wide |-> (i % 2 = 0),
        rider_weight_min_lbs |-> 140, rider_weight_max_lbs |-> 200 ] : i \in 1..(NumBoards - 1) }

\* board_model_ability_level and board_model_terrain_type (terrain type 3 has no board)
AbilityRows == { [ board_model_id |-> i, ability_level_id |-> 1 + (i % 2) ] : i \in Boards }
TerrainRows ==
    { [ board_model_id |-> i, terrain_type_id |-> 1 ] : i \in 2..NumBoards }
    \cup { [ board_model_id |-> i, terrain_type_id |-> 2 ] : i \in { j \in Boards : j % 4 = 0 } }

CatalogStore ==
    [ boards  |-> { BoardRow(i) : i \in Boards },
      sizes   |-> SizeRows,
      ability |-> AbilityRows,
      terrain |-> TerrainRows,
      facets  |-> [ brand |-> BrandOptions, profile |-> ProfileOptions,
                    shape |-> ShapeOptions, response_type |-> ResponseOptions,
                    ability_level |-> AbilityOptions, terrain_type |-> TerrainOptions ] ]

EmptyFacets ==
    [ brand |-> {}, profile |-> {}, shape |-> {}, response_type |-> {},
      ability_level |-> {}, terrain_type |-> {} ]

(* ---------------------------- filter state ----------------------------- *)
createDefaultFilters ==
    [ brandId |-> {}, year |-> {}, gender |-> {}, priceMin |-> Null, priceMax |-> Null,
      profileId |-> {}, shapeId |-> {}, responseTypeId |-> {}, flexMin |-> 1, flexMax |-> 10,
      abilityLevelIds |-> {}, terrainTypeIds |-> {},
      sizeMin |-> Null, sizeMax |-> Null, wide |-> FALSE,
      riderWeightMin |-> Null, riderWeightMax |-> Null ]

\* an assignment of the reference instead of a copy
DeepCopyAliased(f) == [ value |-> f, shared |-> TRUE ]

\* JSON.parse(JSON.stringify(f)): a new object (shared = FALSE: no reference to f
\* or to its arrays survives) holding the same values
DeepCopy(f) == [ value |-> [ k \in DOMAIN f |-> f[k] ], shared |-> FALSE ]

\* Math.ceil(totalCount / itemsPerPage)
TotalPagesOf(count) == (count + itemsPerPage - 1) \div itemsPerPage

\* an offset that counts pages from zero
StartIndexFromZero(page) == page * itemsPerPage

\* (currentPage - 1) * itemsPerPage
StartIndexOf(page) == (page - 1) * itemsPerPage

(* --------------------------- the query calls --------------------------- *)
\* an optional inclusion predicate: absent, or "column in v"
Off == [ on |-> FALSE, v |-> {} ]
In(S) == [ on |-> TRUE, v |-> S ]

\* boardModelIds: null, or the array of allowed ids
Unrestricted == [ restricted |-> FALSE, ids |-> {} ]
Restrict(S) == [ restricted |-> TRUE, ids |-> S ]

\* a test that forgets the wide flag
HasSizeFiltersNoWide(f) ==
    \/ f.sizeMin # Null \/ f.sizeMax # Null
    \/ f.riderWeightMin # Null \/ f.riderWeightMax # Null

HasSizeFilters(f) ==
    \/ f.sizeMin # Null \/ f.sizeMax # Null
    \/ f.riderWeightMin # Null \/ f.riderWeightMax # Null
    \/ f.wide = TRUE

\* a size query with the two rider-weight bounds interchanged
SizeCallSwapsWeights(f) ==
    [ kind |-> "size",
      gte_size_cm |-> f.sizeMin,
      lte_size_cm |-> f.sizeMax,
      gte_rider_weight_max_lbs |-> f.riderWeightMax,
      lte_rider_weight_min_lbs |-> f.riderWeightMin,
      eq_wide |-> (f.wide = TRUE) ]

\* the board_sizes_catalog query; a bound of Null adds no predicate
SizeCall(f) ==
    [ kind |-> "size",
      gte_size_cm |-> f.sizeMin,
      lte_size_cm |-> f.sizeMax,
      gte_rider_weight_max_lbs |-> f.riderWeightMin,
      lte_rider_weight_min_lbs |-> f.riderWeightMax,
      eq_wide |-> (f.wide = TRUE) ]

\* an ability-level query sent with the terrain-type selection
AbilityCallWithTerrainIds(f) == [ kind |-> "ability", in_ability_level_id |-> f.terrainTypeIds ]

AbilityCall(f) == [ kind |-> "ability", in_ability_level_id |-> f.abilityLevelIds ]

TerrainCall(f) == [ kind |-> "terrain", in_terrain_type_id |-> f.terrainTypeIds ]

\* a translation that forgets to keep the selected options only
NamesOfAllOptions(options, selected) ==
    IF selected = {} THEN Off ELSE In({ o.name : o \in options })

\* options.filter(o => selected.includes(o.id)).map(o => o.name), sent only if non-empty
NamesOf(options, selected) ==
    IF selected = {} THEN Off
    ELSE LET names == { o.name : o \in { x \in options : x.id \in selected } }
         IN  IF names # {} THEN In(names) ELSE Off

\* a flex range that is never taken for the default
NeverDefaultFlexRange(f) == FALSE

IsDefaultFlexRange(f) == f.flexMin = 1 /\ f.flexMax = 10

\* the board_catalog query built from boardModelIds, the search box, the applied
\* filters, the facet catalog and the current page
MainCall(bm, env) ==
    LET f == env.filters
        term == Trim(env.searchQuery)
    IN  [ kind |-> "main",
          in_id |-> bm,
          ilike_model_name |-> IF term # <<>> THEN [ on |-> TRUE, term |-> term ]
                                              ELSE [ on |-> FALSE, term |-> <<>> ],
          in_brand_name |-> NamesOf(env.facets.brand, f.brandId),
          in_profile |-> NamesOf(env.facets.profile, f.profileId),
          in_shape |-> NamesOf(env.facets.shape, f.shapeId),
          in_response_type |-> NamesOf(env.facets.response_type, f.responseTypeId),
          in_model_year |-> IF f.year # {} THEN In(f.year) ELSE Off,
          gte_flex_rating |-> IF ~IsDefaultFlexRange(f) THEN f.flexMin ELSE Null,
          lte_flex_rating |-> IF ~IsDefaultFlexRange(f) THEN f.flexMax ELSE Null,
          in_gender |-> IF f.gender # {} THEN In(f.gender) ELSE Off,
          gte_msrp |-> f.priceMin,
          lte_msrp |-> f.priceMax,
          from |-> StartIndexOf(env.currentPage),
          to |-> StartIndexOf(env.currentPage) + itemsPerPage - 1 ]

(* ------------------------ the store's answers -------------------------- *)
\* a strict comparison
GteStrict(column, bound) == bound = Null \/ (column # Null /\ column > bound)

\* column >= bound and column <= bound; a null column satisfies no comparison
Gte(column, bound) == bound = Null \/ (column # Null /\ column >= bound)
Lte(column, bound) == bound = Null \/ (column # Null /\ column <= bound)
Member(column, p) == ~p.on \/ column \in p.v

SizeData(st, call) ==
    { s \in st.sizes :
        /\ Gte(s.size_cm, call.gte_size_cm)
        /\ Lte(s.size_cm, call.lte_size_cm)
        /\ Gte(s.rider_weight_max_lbs, call.gte_rider_weight_max_lbs)
        /\ Lte(s.rider_weight_min_lbs, call.lte_rider_weight_min_lbs)
        /\ (call.eq_wide => s.wide = TRUE) }

AbilityData(st, call) ==
    { a \in st.ability : a.ability_level_id \in call.in_ability_level_id }

TerrainData(st, call) ==
    { t \in st.terrain : t.terrain_type_id \in call.in_terrain_type_id }

\* [...new Set(data.map(r => r.board_model_id).filter(Boolean))]
UniqueBoardIds(data) == { r.board_model_id : r \in { x \in data : x.board_model_id # 0 } }

MainMatches(st, call) ==
    { b \in st.boards :
        /\ (call.in_id.restricted => b.id \in call.in_id.ids)
        /\ (call.ilike_model_name.on => ILike(b.model_name, call.ilike_model_name.term))
        /\ Member(b.brand_name, call.in_brand_name)
        /\ Member(b.profile, call.in_profile)
        /\ Member(b.shape, call.in_shape)
        /\ Member(b.response_type, call.in_response_type)
        /\ Member(b.model_year, call.in_model_year)
        /\ Gte(b.flex_rating, call.gte_flex_rating)
        /\ Lte(b.flex_rating, call.lte_flex_rating)
        /\ Member(b.gender, call.in_gender)
        /\ Gte(b.msrp, call.gte_msrp)
        /\ Lte(b.msrp, call.lte_msrp) }

\* the orders "ORDER BY model_name ASC" allows: rows of equal name come in any order
RECURSIVE Orders(_)
Orders(S) ==
    IF S = {} THEN { <<>> }
    ELSE UNION { { <<m>> \o t : t \in Orders(S \ {m}) } :
                 m \in { x \in S : \A y \in S : ~TextLess(y.model_name, x.model_name) } }

\* rows from..to (zero-based, inclusive) of an ordered result
Slice(o, from, to) == SubSeq(o, from + 1, IF to + 1 < Len(o) THEN to + 1 ELSE Len(o))

\* the orders of the whole board_catalog view (of the catalog store: computed once)
CatalogOrders == Orders(CatalogStore.boards)
OrdersOf(st) == IF st = CatalogStore THEN CatalogOrders ELSE Orders(st.boards)

\* the rows of an order of the view that satisfy the predicates, in that order
Matching(o, M) == SelectSeq(o, LAMBDA b : b \in M)

\* the answers the store may give to the main query: the exact count and one page
MainData(st, call) ==
    LET M == MainMatches(st, call)
    IN  { [ count |-> Cardinality(M), data |-> Slice(Matching(o, M), call.from, call.to) ] :
          o \in OrdersOf(st) }

(* --------------------------- result projection ------------------------- *)
\* a projection that nests the shape under profile
ProjectShapeAsProfile(board) ==
    [ id |-> board.id,
      model_name |-> board.model_name,
      model_year |-> board.model_year,
      flex_rating |-> board.flex_rating,
      gender |-> board.gender,
      msrp |-> board.msrp,
      image_url |-> board.image_url,
      brand |-> [ id |-> Null, name |-> board.brand_name ],
      profile |-> [ id |-> Null, standard_name |-> board.shape ],
      shape |-> [ id |-> Null, standard_name |-> board.shape ],
      response_type |-> [ id |-> Null, standard_name |-> board.response_type ] ]

\* board => ({ ... }) of transformedData
Project(board) ==
    [ id |-> board.id,
      model_name |-> board.model_name,
      model_year |-> board.model_year,
      flex_rating |-> board.flex_rating,
      gender |-> board.gender,
      msrp |-> board.msrp,
      image_url |-> board.image_url,
      brand |-> [ id |-> Null, name |-> board.brand_name ],
      profile |-> [ id |-> Null, standard_name |-> board.profile ],
      shape |-> [ id |-> Null, standard_name |-> board.shape ],
      response_type |-> [ id |-> Null, standard_name |-> board.response_type ] ]

TransformData(data) == [ k \in 1..Len(data) |-> Project(data[k]) ]

(* ------------------------------- state --------------------------------- *)
\* the relational store (read-only for this program)
store == CatalogStore

VARIABLES
    snowboards,      \* displayed rows
    totalCount,
    loading,
    error,
    searchQuery,     \* the search box, bound with v-model
    currentPage,
    filters,         \* applied snapshot
    pendingFilters,  \* pending snapshot
    shared,          \* TRUE iff filters and pendingFilters are one object
    facets,          \* the facet catalog (brands, profiles, ...)
    searchTimeout,   \* the debounce handle: "null", or "set" once a timer was scheduled
    timers,          \* number of debounce callbacks still scheduled
    mountPc,         \* onMounted: "options" while fetchFilterOptions is awaited, then "done"
    requests,        \* the fetchSnowboards calls in flight, by start number
    nStarted,        \* number of fetchSnowboards calls started so far
    nTriggers,       \* number of handler runs that called fetchSnowboards so far
    committedSearch, \* history: the search text as of the last debounced commit or reset
    lastOp,          \* history: "goToPage:outside" after a goToPage(n) with n outside
                     \* 1..totalPages, "failed" after a query returned an error,
                     \* "other" after any other step
    probe            \* the input and the result of one evaluation of the query
                     \* functions over a drawn store (idle while the component runs)

vars == << snowboards, totalCount, loading, error, searchQuery, currentPage,
           filters, pendingFilters, shared, facets, searchTimeout, timers, mountPc,
           requests, nStarted, nTriggers, committedSearch, lastOp, probe >>

\* the state of the component
component == << snowboards, totalCount, loading, error, searchQuery, currentPage,
                filters, pendingFilters, shared, facets, searchTimeout, timers, mountPc,
                requests, nStarted, nTriggers, committedSearch, lastOp >>

display == << snowboards, totalCount, loading, error >>

\* Math.ceil(totalCount.value / itemsPerPage)
totalPages == TotalPagesOf(totalCount)

\* the template: v-if="loading", v-else-if="error", v-else
Status == IF loading THEN "loading" ELSE IF error # NoError THEN "error" ELSE "ready"

InFlight == DOMAIN requests

(* ------------------------- fetchSnowboards ----------------------------- *)
\* what a running fetchSnowboards reads: refs, read when the code reaches them
Env(f, s, p, fc) == [ filters |-> f, searchQuery |-> s, currentPage |-> p, facets |-> fc ]

\* a terrain block that is followed by the ability-level block
AfterTerrainAsksAbility(bm, env) ==
    IF env.filters.abilityLevelIds # {}
    THEN [ pc |-> "ability", bm |-> bm, call |-> AbilityCall(env.filters) ]
    ELSE [ pc |-> "main", bm |-> bm, call |-> MainCall(bm, env) ]

\* from the end of the terrain block to the await of the main query
AfterTerrain(bm, env) == [ pc |-> "main", bm |-> bm, call |-> MainCall(bm, env) ]

\* from the end of the ability block to the next await
AfterAbility(bm, env) ==
    IF env.filters.terrainTypeIds # {}
    THEN [ pc |-> "terrain", bm |-> bm, call |-> TerrainCall(env.filters) ]
    ELSE AfterTerrain(bm, env)

\* from the end of the size block to the next await
AfterSize(bm, env) ==
    IF env.filters.abilityLevelIds # {}
    THEN [ pc |-> "ability", bm |-> bm, call |-> AbilityCall(env.filters) ]
    ELSE AfterAbility(bm, env)

\* from the call of fetchSnowboards to its first await
FetchStart(env) ==
    IF HasSizeFilters(env.filters)
    THEN [ pc |-> "size", bm |-> Unrestricted, call |-> SizeCall(env.filters) ]
    ELSE AfterSize(Unrestricted, env)

\* a request record: the position and locals of one fetchSnowboards call, with the
\* trigger, and the values of the refs when it started (history)
NewRequest(trigger, via, env, snap) ==
    LET at == FetchStart(env)
    IN  [ pc |-> at.pc, bm |-> at.bm, call |-> at.call, facetsAt |-> env.facets,
          trigger |-> trigger, via |-> via, snap |-> snap ]

\* the handler calls fetchSnowboards; when it changed currentPage, the watcher of
\* currentPage calls it once more after the handler has returned
Triggered(pageBefore, pageAfter) ==
    IF pageBefore # pageAfter THEN << "call", "watch" >> ELSE << "call" >>

StartAll(trigger, vias, env, snap) ==
    [ k \in (InFlight \cup ((nStarted + 1)..(nStarted + Len(vias)))) |->
        IF k \in InFlight THEN requests[k]
        ELSE NewRequest(trigger, vias[k - nStarted], env, snap) ]

Snapshot(f, s, p, cs) ==
    [ filters |-> f, searchQuery |-> s, currentPage |-> p, committedSearch |-> cs ]

\* the state changes of the synchronous head of fetchSnowboards, for each call in vias
Fetch(trigger, vias, f, s, p, fc, cs) ==
    /\ nTriggers < MaxTriggers
    /\ nTriggers' = nTriggers + 1
    /\ Cardinality(InFlight) + Len(vias) <= MaxInFlight
    /\ loading' = TRUE
    /\ error' = NoError
    /\ requests' = StartAll(trigger, vias, Env(f, s, p, fc), Snapshot(f, s, p, cs))
    /\ nStarted' = nStarted + Len(vias)
    /\ UNCHANGED << snowboards, totalCount >>

(* ------------------------------ handlers ------------------------------- *)
\* the refs after setup
Constructed ==
    /\ snowboards = << >>
    /\ totalCount = 0
    /\ loading = FALSE
    /\ error = NoError
    /\ searchQuery = << >>
    /\ currentPage = 1
    /\ filters = createDefaultFilters
    /\ pendingFilters = createDefaultFilters
    /\ shared = FALSE
    /\ facets = EmptyFacets
    /\ searchTimeout = "null"
    /\ timers = 0
    /\ mountPc = "options"
    /\ requests = << >>
    /\ nStarted = 0
    /\ nTriggers = 0
    /\ committedSearch = << >>
    /\ lastOp = "other"

Idle == [ kind |-> "idle" ]

Init == Constructed /\ probe = Idle

\* onMounted: fetchFilterOptions returns (with the catalog_filters rows or an error
\* it swallows), then fetchSnowboards is called
MountOptionsReturn(ok) ==
    /\ mountPc = "options"
    /\ mountPc' = "done"
    /\ facets' = IF ok THEN store.facets ELSE facets
    /\ Fetch("mount", << "call" >>, filters, searchQuery, currentPage, facets', committedSearch)
    /\ lastOp' = "other"
    /\ UNCHANGED << probe, searchQuery, currentPage, filters, pendingFilters, shared,
                    searchTimeout, timers, committedSearch >>

\* the fields the filter panel edits in this model and the values it stages
StageFields ==
    { "abilityLevelIds", "terrainTypeIds", "wide", "sizeMin", "priceMin", "brandId", "gender" }

StageValues(field) ==
    CASE field = "abilityLevelIds" -> { {1}, {2} }
      [] field = "terrainTypeIds" -> { {2}, {3} }
      [] field = "wide" -> { TRUE }
      [] field = "sizeMin" -> { 170 }
      [] field = "priceMin" -> { 200 }
      [] field = "brandId" -> { {1} }
      [] field = "gender" -> { {"Womens"} }

\* a MultiSelectGrid offers the options of the loaded facet catalog only
Offered(field, value) ==
    CASE field = "abilityLevelIds" -> value \subseteq { o.id : o \in facets.ability_level }
      [] field = "terrainTypeIds" -> value \subseteq { o.id : o \in facets.terrain_type }
      [] field = "brandId" -> value \subseteq { o.id : o \in facets.brand }
      [] OTHER -> TRUE

\* the pending snapshots the filter panel is brought to while requests overlap: the
\* default with one field staged (one value each, the terrain type without boards
\* included), and an ability level and a terrain type staged together
PanelStates ==
    { createDefaultFilters,
      [ createDefaultFilters EXCEPT !.abilityLevelIds = {1} ],
      [ createDefaultFilters EXCEPT !.terrainTypeIds = {2} ],
      [ createDefaultFilters EXCEPT !.terrainTypeIds = {3} ],
      [ createDefaultFilters EXCEPT !.wide = TRUE ],
      [ createDefaultFilters EXCEPT !.priceMin = 200 ],
      [ createDefaultFilters EXCEPT !.abilityLevelIds = {1}, !.terrainTypeIds = {2} ] }

\* stagePendingChange(field, value): a widget of the filter panel assigns one
\* property of pendingFilters.value
Stage(field, value) ==
    /\ Offered(field, value)
    /\ pendingFilters[field] # value
    /\ pendingFilters' = [ pendingFilters EXCEPT ![field] = value ]
    /\ filters' = IF shared THEN pendingFilters' ELSE filters
    /\ lastOp' = "other"
    /\ UNCHANGED << probe, snowboards, totalCount, loading, error, searchQuery,
                    currentPage, shared, facets, searchTimeout, timers, mountPc,
                    requests, nStarted, nTriggers, committedSearch >>

\* commit()
applyFilters ==
    LET copy == DeepCopy(pendingFilters)
        vias == Triggered(currentPage, 1)
    IN  /\ filters' = copy.value
        /\ shared' = copy.shared
        /\ pendingFilters' = pendingFilters
        /\ currentPage' = 1
        /\ Fetch("commit", vias, filters', searchQuery, 1, facets, committedSearch)
        /\ lastOp' = "other"
        /\ UNCHANGED << probe, searchQuery, facets, searchTimeout, timers, mountPc,
                        committedSearch >>

\* a reset that leaves the search box as it is
clearFiltersKeepsSearch ==
    LET copy1 == DeepCopy(createDefaultFilters)
        copy2 == DeepCopy(createDefaultFilters)
        vias == Triggered(currentPage, 1)
    IN  /\ filters' = copy1.value
        /\ pendingFilters' = copy2.value
        /\ shared' = FALSE
        /\ currentPage' = 1
        /\ Fetch("reset", vias, filters', searchQuery, 1, facets, committedSearch)
        /\ lastOp' = "other"
        /\ UNCHANGED << probe, searchQuery, committedSearch, facets, searchTimeout, timers,
                        mountPc >>

\* reset()
clearFilters ==
    LET copy1 == DeepCopy(createDefaultFilters)
        copy2 == DeepCopy(createDefaultFilters)
        vias == Triggered(currentPage, 1)
    IN  /\ filters' = copy1.value
        /\ pendingFilters' = copy2.value
        /\ shared' = FALSE
        /\ searchQuery' = << >>
        /\ currentPage' = 1
        /\ committedSearch' = << >>
        /\ Fetch("reset", vias, filters', << >>, 1, facets, << >>)
        /\ lastOp' = "other"
        /\ UNCHANGED << probe, facets, searchTimeout, timers, mountPc >>

\* the texts typed into the search box
SearchTexts == { << >>, << 11, 0 >> }

\* clearTimeout(handle): cancels the callback the handle names, if still scheduled
\* (the handle names the callback scheduled last, which is the last one to run)
ClearTimeout(handle, n) == IF handle = "set" /\ n > 0 THEN n - 1 ELSE n

\* the timers scheduled once handleSearch has run
Rescheduled(handle, n) == (IF handle # "null" THEN ClearTimeout(handle, n) ELSE n) + 1

\* an edit of the search box: SearchBar emits update:modelValue (v-model writes
\* searchQuery) and input (handleSearch)
SearchEdit(text) ==
    /\ text # searchQuery
    /\ searchQuery' = text
    /\ timers' = Rescheduled(searchTimeout, timers)
    /\ searchTimeout' = "set"
    /\ lastOp' = "other"
    /\ UNCHANGED << probe, snowboards, totalCount, loading, error, currentPage, filters,
                    pendingFilters, shared, facets, mountPc, requests, nStarted, nTriggers,
                    committedSearch >>

\* the debounce callback of handleSearch runs
SearchFire ==
    LET vias == Triggered(currentPage, 1)
    IN  /\ timers > 0
        /\ timers' = timers - 1
        /\ searchTimeout' = searchTimeout
        /\ currentPage' = 1
        /\ committedSearch' = searchQuery
        /\ Fetch("search", vias, filters, searchQuery, 1, facets, searchQuery)
        /\ lastOp' = "other"
        /\ UNCHANGED << probe, searchQuery, filters, pendingFilters, shared, facets,
                        mountPc >>

\* a test that forgets the upper end of the range
PageAcceptedNoUpperEnd(page, pages) == page >= 1

\* a test that forgets the lower end of the range
PageAcceptedNoLowerEnd(page, pages) == page <= pages

\* the test of goToPage
PageAccepted(page, pages) == page >= 1 /\ page <= pages

\* goToPage(page); the watcher of currentPage calls fetchSnowboards when the page changed
goToPage(page) ==
    /\ lastOp' = IF page < 1 \/ page > totalPages THEN "goToPage:outside" ELSE "other"
    /\ IF PageAccepted(page, totalPages) /\ page # currentPage
       THEN /\ currentPage' = page
            /\ Fetch("page", << "watch" >>, filters, searchQuery, page, facets, committedSearch)
       ELSE UNCHANGED << currentPage, snowboards, totalCount, loading, error, requests,
                         nStarted, nTriggers >>
    /\ UNCHANGED << probe, searchQuery, filters, pendingFilters, shared, facets,
                    searchTimeout, timers, mountPc, committedSearch >>

(* ------------------- fetchSnowboards after an await -------------------- *)
CurrentEnv == Env(filters, searchQuery, currentPage, facets)

\* the call has returned
Completed(id) == requests' = [ k \in InFlight \ {id} |-> requests[k] ]

\* a catch block that sets no message
CatchWithoutMessage(id) ==
    /\ error' = error
    /\ snowboards' = << >>
    /\ totalCount' = 0
    /\ loading' = FALSE
    /\ Completed(id)

\* a catch block without the finally block
CatchKeepsLoading(id) ==
    /\ error' = FailedMessage
    /\ snowboards' = << >>
    /\ totalCount' = 0
    /\ loading' = loading
    /\ Completed(id)

\* catch and finally
Catch(id) ==
    /\ error' = FailedMessage
    /\ snowboards' = << >>
    /\ totalCount' = 0
    /\ loading' = FALSE
    /\ Completed(id)

\* the early returns on an empty id set (and finally)
ShortCircuit(id) ==
    /\ snowboards' = << >>
    /\ totalCount' = 0
    /\ loading' = FALSE
    /\ error' = error
    /\ Completed(id)

\* the call goes on to its next await
Continue(id, at) ==
    /\ requests' = [ requests EXCEPT ![id] =
                       [ @ EXCEPT !.pc = at.pc, !.bm = at.bm, !.call = at.call,
                                  !.facetsAt = facets ] ]
    /\ UNCHANGED << snowboards, totalCount, loading, error >>

\* a restriction that keeps the ids resolved before instead of intersecting
IntersectKeepsFirst(bm, found) == IF bm.restricted THEN bm ELSE Restrict(found)

\* a restriction that forgets the ids resolved before
IntersectKeepsLast(bm, found) == Restrict(found)

\* a restriction that adds the new ids to those resolved before
IntersectUnites(bm, found) == IF bm.restricted THEN Restrict(bm.ids \cup found) ELSE Restrict(found)

\* boardModelIds.filter(id => found.includes(id)), or found when boardModelIds is null
Intersect(bm, found) == IF bm.restricted THEN Restrict(bm.ids \cap found) ELSE Restrict(found)

Others ==
    UNCHANGED << probe, searchQuery, currentPage, filters, pendingFilters, shared, facets,
                 searchTimeout, timers, mountPc, nStarted, nTriggers, committedSearch >>

\* the size query returns
RespondSize(id, ok) ==
    /\ id \in InFlight /\ requests[id].pc = "size"
    /\ lastOp' = IF ok THEN "other" ELSE "failed"
    /\ IF ~ok THEN Catch(id)
       ELSE LET found == UniqueBoardIds(SizeData(store, requests[id].call))
            IN  IF found = {} THEN ShortCircuit(id)
                ELSE Continue(id, AfterSize(Restrict(found), CurrentEnv))
    /\ Others

\* the ability-level query returns
RespondAbility(id, ok) ==
    /\ id \in InFlight /\ requests[id].pc = "ability"
    /\ lastOp' = IF ok THEN "other" ELSE "failed"
    /\ IF ~ok THEN Catch(id)
       ELSE LET found == UniqueBoardIds(AbilityData(store, requests[id].call))
                bm == Intersect(requests[id].bm, found)
            IN  IF found = {} \/ bm.ids = {} THEN ShortCircuit(id)
                ELSE Continue(id, AfterAbility(bm, CurrentEnv))
    /\ Others

\* the terrain-type query returns
RespondTerrain(id, ok) ==
    /\ id \in InFlight /\ requests[id].pc = "terrain"
    /\ lastOp' = IF ok THEN "other" ELSE "failed"
    /\ IF ~ok THEN Catch(id)
       ELSE LET found == UniqueBoardIds(TerrainData(store, requests[id].call))
                bm == Intersect(requests[id].bm, found)
            IN  IF found = {} \/ bm.ids = {} THEN ShortCircuit(id)
                ELSE Continue(id, AfterTerrain(bm, CurrentEnv))
    /\ Others

\* a main query whose success takes the error message away
RespondMainClearsError(id, ok) ==
    /\ id \in InFlight /\ requests[id].pc = "main"
    /\ lastOp' = IF ok THEN "other" ELSE "failed"
    /\ IF ~ok THEN Catch(id)
       ELSE \E answer \in MainData(store, requests[id].call) :
                /\ totalCount' = answer.count
                /\ snowboards' = TransformData(answer.data)
                /\ loading' = FALSE
                /\ error' = NoError
                /\ Completed(id)
    /\ Others

\* the main query returns
RespondMain(id, ok) ==
    /\ id \in InFlight /\ requests[id].pc = "main"
    /\ lastOp' = IF ok THEN "other" ELSE "failed"
    /\ IF ~ok THEN Catch(id)
       ELSE \E answer \in MainData(store, requests[id].call) :
                /\ totalCount' = answer.count
                /\ snowboards' = TransformData(answer.data)
                /\ loading' = FALSE
                /\ error' = error
                /\ Completed(id)
    /\ Others

(* --------------------------- specifications --------------------------- *)
\* the filter panel, pagination and the four queries (the search box untouched)
Next ==
    \/ \E ok \in BOOLEAN : MountOptionsReturn(ok)
    \/ \E field \in StageFields : \E value \in StageValues(field) :
           Stage(field, value) /\ pendingFilters' \in PanelStates
    \/ applyFilters
    \/ clearFilters
    \/ \E page \in 0..(totalPages + 1) : goToPage(page)
    \/ \E id \in InFlight : \E ok \in BOOLEAN : RespondSize(id, ok)
    \/ \E id \in InFlight : \E ok \in BOOLEAN : RespondAbility(id, ok)
    \/ \E id \in InFlight : \E ok \in BOOLEAN : RespondTerrain(id, ok)
    \/ \E id \in InFlight : \E ok \in BOOLEAN : RespondMain(id, ok)

Spec == Init /\ [][Next]_vars

\* the search box with its debounce, one field of the filter panel, apply, clear and
\* the page buttons (no junction facet is staged, so every request is at its main
\* query; the out-of-range pages and the failing queries are exercised in Spec)
NextSearch ==
    \/ \E ok \in BOOLEAN : MountOptionsReturn(ok)
    \/ \E text \in SearchTexts : SearchEdit(text)
    \/ SearchFire
    \/ Stage("priceMin", 200)
    \/ applyFilters
    \/ clearFilters
    \/ \E page \in 1..totalPages : goToPage(page)
    \/ \E id \in InFlight : RespondMain(id, TRUE)

SpecSearch == Init /\ [][NextSearch]_vars

\* one request at a time: the user stages any combination of the staged values and
\* applies or clears only when no request is in flight; every query may fail
NextPipeline ==
    \/ \E ok \in BOOLEAN : MountOptionsReturn(ok)
    \/ \E field \in StageFields : \E value \in StageValues(field) :
           InFlight = {} /\ Stage(field, value)
    \/ InFlight = {} /\ applyFilters
    \/ InFlight = {} /\ clearFilters
    \/ \E id \in InFlight : \E ok \in BOOLEAN : RespondSize(id, ok)
    \/ \E id \in InFlight : \E ok \in BOOLEAN : RespondAbility(id, ok)
    \/ \E id \in InFlight : \E ok \in BOOLEAN : RespondTerrain(id, ok)
    \/ \E id \in InFlight : \E ok \in BOOLEAN : RespondMain(id, ok)

SpecPipeline == Init /\ [][NextPipeline]_vars

\* the range widgets brought to inverted bounds, one bound at a time: price
\* 500..200, size 160..150, flex 8..3
BoundValues ==
    [ priceMin |-> 500, priceMax |-> 200, sizeMin |-> 160, sizeMax |-> 150,
      flexMin |-> 8, flexMax |-> 3 ]

BoundStates ==
    { createDefaultFilters,
      [ createDefaultFilters EXCEPT !.priceMin = 500 ],
      [ createDefaultFilters EXCEPT !.priceMin = 500, !.priceMax = 200 ],
      [ createDefaultFilters EXCEPT !.sizeMin = 160 ],
      [ createDefaultFilters EXCEPT !.sizeMin = 160, !.sizeMax = 150 ],
      [ createDefaultFilters EXCEPT !.flexMin = 8 ],
      [ createDefaultFilters EXCEPT !.flexMin = 8, !.flexMax = 3 ] }

\* the range widgets and Apply Filters while requests overlap; every query may fail
NextBounds ==
    \/ \E ok \in BOOLEAN : MountOptionsReturn(ok)
    \/ \E field \in DOMAIN BoundValues :
           Stage(field, BoundValues[field]) /\ pendingFilters' \in BoundStates
    \/ applyFilters
    \/ \E id \in InFlight : \E ok \in BOOLEAN : RespondSize(id, ok)
    \/ \E id \in InFlight : \E ok \in BOOLEAN : RespondMain(id, ok)

SpecBounds == Init /\ [][NextBounds]_vars

\* every trigger of a request (the initial load, commit, reset, the page buttons,
\* the search box with its debounce) while the main query may fail
NextRetry ==
    \/ \E ok \in BOOLEAN : MountOptionsReturn(ok)
    \/ \E text \in SearchTexts : SearchEdit(text)
    \/ SearchFire
    \/ applyFilters
    \/ clearFilters
    \/ \E page \in 1..totalPages : goToPage(page)
    \/ \E id \in InFlight : \E ok \in BOOLEAN : RespondMain(id, ok)

SpecRetry == Init /\ [][NextRetry]_vars

\* the filter panel and Apply Filters while requests overlap and every query may
\* fail
NextLive ==
    \/ \E ok \in BOOLEAN : MountOptionsReturn(ok)
    \/ \E field \in StageFields : \E value \in StageValues(field) :
           Stage(field, value) /\ pendingFilters' \in PanelStates
    \/ applyFilters
    \/ \E id \in InFlight : \E ok \in BOOLEAN : RespondSize(id, ok)
    \/ \E id \in InFlight : \E ok \in BOOLEAN : RespondAbility(id, ok)
    \/ \E id \in InFlight : \E ok \in BOOLEAN : RespondTerrain(id, ok)
    \/ \E id \in InFlight : \E ok \in BOOLEAN : RespondMain(id, ok)

\* the network call a request waits for returns, with data or with an error
Returns(id) ==
    \E ok \in BOOLEAN :
        \/ RespondSize(id, ok)
        \/ RespondAbility(id, ok)
        \/ RespondTerrain(id, ok)
        \/ RespondMain(id, ok)

\* the requests that can ever be started (the page stays 1 under NextLive, so each
\* trigger starts one request)
RequestIds == 1..MaxTriggers

\* every network call eventually returns
SpecLive == Init /\ [][NextLive]_vars /\ \A id \in RequestIds : WF_vars(Returns(id))

(* ---------------- fetchSnowboards as a function of the store ----------- *)
\* the three id blocks of one call whose queries all succeed, over the store st
\* and the applied filters f: o is the state after the blocks before (empty: a
\* block has returned early; bm: boardModelIds)
Unresolved == [ empty |-> FALSE, bm |-> Unrestricted ]

\* a size block that takes an empty id list for no restriction
SizeBlockKeepsAll(st, f, o) ==
    IF o.empty \/ ~HasSizeFilters(f) THEN o
    ELSE LET found == UniqueBoardIds(SizeData(st, SizeCall(f)))
         IN  IF found = {} THEN o ELSE [ empty |-> FALSE, bm |-> Restrict(found) ]

SizeBlock(st, f, o) ==
    IF o.empty \/ ~HasSizeFilters(f) THEN o
    ELSE LET found == UniqueBoardIds(SizeData(st, SizeCall(f)))
         IN  IF found = {} THEN [ empty |-> TRUE, bm |-> o.bm ]
             ELSE [ empty |-> FALSE, bm |-> Restrict(found) ]

AbilityBlock(st, f, o) ==
    IF o.empty \/ f.abilityLevelIds = {} THEN o
    ELSE LET found == UniqueBoardIds(AbilityData(st, AbilityCall(f)))
             bm == Intersect(o.bm, found)
         IN  IF found = {} \/ bm.ids = {} THEN [ empty |-> TRUE, bm |-> o.bm ]
             ELSE [ empty |-> FALSE, bm |-> bm ]

TerrainBlock(st, f, o) ==
    IF o.empty \/ f.terrainTypeIds = {} THEN o
    ELSE LET found == UniqueBoardIds(TerrainData(st, TerrainCall(f)))
             bm == Intersect(o.bm, found)
         IN  IF found = {} \/ bm.ids = {} THEN [ empty |-> TRUE, bm |-> o.bm ]
             ELSE [ empty |-> FALSE, bm |-> bm ]

\* size, then ability level, then terrain type
Resolve(st, f) == TerrainBlock(st, f, AbilityBlock(st, f, SizeBlock(st, f, Unresolved)))

\* what a call that does not fail may leave on display: nothing after an early
\* return, else the count and the page of one answer to the main query
Outcomes(st, env) ==
    LET o == Resolve(st, env.filters)
    IN  IF o.empty THEN { [ rows |-> << >>, totalCount |-> 0 ] }
        ELSE { [ rows |-> TransformData(a.data), totalCount |-> a.count ] :
               a \in MainData(st, MainCall(o.bm, env)) }

\* the parameters of the last query such a call sends
LastCall(st, env) ==
    LET o == Resolve(st, env.filters)
    IN  IF o.empty THEN [ kind |-> "none" ] ELSE MainCall(o.bm, env)

(* ----------------------------- drawn stores ---------------------------- *)
Items == 1..MaxItems

\* a store of MaxItems boards: board i has the ability levels al[i], the terrain
\* types tt[i] and one size, wide iff i \in w
SmallStore(al, tt, w) ==
    [ boards  |-> { BoardRow(i) : i \in Items },
      sizes   |-> { [ board_model_id |-> i, size_cm |-> 160, wide |-> (i \in w),
                      rider_weight_min_lbs |-> 140, rider_weight_max_lbs |-> 200 ] :
                    i \in Items },
      ability |-> { [ board_model_id |-> x[1], ability_level_id |-> x[2] ] :
                    x \in { y \in Items \X {1, 2} : y[2] \in al[y[1]] } },
      terrain |-> { [ board_model_id |-> x[1], terrain_type_id |-> x[2] ] :
                    x \in { y \in Items \X {1} : y[2] \in tt[y[1]] } },
      facets  |-> CatalogStore.facets ]

SmallStores ==
    { SmallStore(al, tt, w) :
        al \in [ Items -> SUBSET {1, 2} ], tt \in [ Items -> SUBSET {1} ],
        w \in { {}, { i \in Items : i % 2 = 1 }, Items } }

\* the selections of the ability-level and terrain-type grids and of the wide box
JunctionFilters ==
    { [ createDefaultFilters EXCEPT !.abilityLevelIds = a, !.terrainTypeIds = t, !.wide = w ] :
        a \in SUBSET {1, 2}, t \in SUBSET {1}, w \in BOOLEAN }

\* selections of the facets of the main query (brand 9 is not in the facet catalog)
FacetFilters ==
    { [ createDefaultFilters EXCEPT !.brandId = b, !.priceMin = pm, !.gender = g,
                                    !.abilityLevelIds = a, !.wide = w ] :
        b \in { {}, {1}, {9} }, pm \in { Null, 200 }, g \in { {}, {"Womens"} },
        a \in { {}, {1} }, w \in BOOLEAN }

\* a store of n boards without junction rows
PagedStore(n) ==
    [ boards |-> { BoardRow(i) : i \in 1..n }, sizes |-> {}, ability |-> {}, terrain |-> {},
      facets |-> CatalogStore.facets ]

\* a store whose boards all carry one model name (model years and brands differ)
TiedStore ==
    [ boards |-> { [ BoardRow(i) EXCEPT !.model_name = << 1, 1 >> ] : i \in Items },
      sizes |-> {}, ability |-> {}, terrain |-> {}, facets |-> CatalogStore.facets ]

\* the two sizes a board of a drawn store may come in
Variants ==
    { [ size_cm |-> 150, wide |-> FALSE, rider_weight_min_lbs |-> 100,
        rider_weight_max_lbs |-> 150 ],
      [ size_cm |-> 160, wide |-> TRUE, rider_weight_min_lbs |-> 140,
        rider_weight_max_lbs |-> 200 ] }

\* a store of MaxItems boards: board i comes in the sizes vs[i] (possibly none)
VariantStore(vs) ==
    [ boards  |-> { BoardRow(i) : i \in Items },
      sizes   |-> { [ board_model_id |-> x[1], size_cm |-> x[2].size_cm, wide |-> x[2].wide,
                      rider_weight_min_lbs |-> x[2].rider_weight_min_lbs,
                      rider_weight_max_lbs |-> x[2].rider_weight_max_lbs ] :
                    x \in { y \in Items \X Variants : y[2] \in vs[y[1]] } },
      ability |-> {}, terrain |-> {}, facets |-> CatalogStore.facets ]

VariantStores == { VariantStore(vs) : vs \in [ Items -> SUBSET Variants ] }

\* the size, rider-weight and wide widgets (bounds that are absent, met by one
\* size only, or met by none)
SizeFilters ==
    { [ createDefaultFilters EXCEPT !.sizeMin = a, !.sizeMax = b, !.wide = w,
                                    !.riderWeightMin = c, !.riderWeightMax = d ] :
        a \in { Null, 160 }, b \in { Null, 150 }, w \in BOOLEAN,
        c \in { Null, 120, 150, 151 }, d \in { Null, 100, 139 } }

\* three boards priced 300, 600 and 150, and a fourth without a price
UnpricedStore ==
    [ PagedStore(3) EXCEPT !.boards = @ \cup { [ BoardRow(4) EXCEPT !.msrp = Null ] } ]

PriceFilters ==
    { [ createDefaultFilters EXCEPT !.priceMin = a, !.priceMax = b ] :
        a \in { Null, 0, 200, 300, 700 }, b \in { Null, 100, 300, 500 } }

\* the two flex sliders, each on its own scale from 1 to 10 (board 5 of a store
\* has no flex rating)
FlexFilters ==
    { [ createDefaultFilters EXCEPT !.flexMin = a, !.flexMax = b ] :
        a \in { 1, 3, 6 }, b \in { 2, 4, 10 } }

\* itemsPerPage + 1 boards; the two boards that come last in name order carry
\* one model name (their brands and model years differ)
StraddleStore ==
    [ PagedStore(itemsPerPage + 1) EXCEPT !.boards =
        { [ b EXCEPT !.model_name = IF b.id = 12 THEN BoardRow(13).model_name ELSE @ ] :
          b \in @ } ]

Input(kind, st, env) == [ kind |-> kind, stage |-> "input", st |-> st, env |-> env ]

\* one call over a drawn store and drawn applied filters
QueryInputs ==
    { Input("junction", st, Env(f, << >>, 1, st.facets)) : st \in SmallStores, f \in JunctionFilters }
    \cup
    { Input("facets", CatalogStore, Env(f, << >>, 1, fc)) :
        f \in FacetFilters, fc \in { CatalogStore.facets, EmptyFacets } }
    \cup
    { Input("pages", PagedStore(n), Env(createDefaultFilters, << >>, p, CatalogStore.facets)) :
        n \in 0..MaxCount, p \in 1..MaxPage }
    \cup
    { Input("size", st, Env(f, << >>, 1, st.facets)) : st \in VariantStores, f \in SizeFilters }
    \cup
    { Input("price", st, Env(f, << >>, 1, st.facets)) :
        st \in { PagedStore(3), UnpricedStore }, f \in PriceFilters }
    \cup
    { Input("flex", PagedStore(6), Env(f, << >>, 1, CatalogStore.facets)) : f \in FlexFilters }
    \cup
    { Input("order", st, Env(createDefaultFilters, << >>, 1, st.facets)) :
        st \in { StraddleStore, PagedStore(itemsPerPage + 1) } }

\* the panel as staged, and the page shown, before two presses of Apply Filters
CommitInputs ==
    { [ kind |-> "commit", stage |-> "input", st |-> st, pendingFilters |-> f,
        env |-> Env(createDefaultFilters, s, p, st.facets) ] :
        st \in { TiedStore, PagedStore(MaxItems) },
        f \in { createDefaultFilters, [ createDefaultFilters EXCEPT !.priceMin = 200 ] },
        s \in SearchTexts, p \in 1..MaxPage }

InitQuery == Constructed /\ probe \in (QueryInputs \cup CommitInputs)

\* fetchSnowboards runs to its end without a failing query
Query ==
    /\ probe.kind \in { "junction", "facets", "pages", "size", "price", "flex", "order" }
    /\ probe.stage = "input"
    /\ \E shown \in Outcomes(probe.st, probe.env) :
           probe' = [ kind |-> probe.kind, stage |-> "done", st |-> probe.st, env |-> probe.env,
                      resolved |-> Resolve(probe.st, probe.env.filters),
                      call |-> LastCall(probe.st, probe.env),
                      rows |-> shown.rows, totalCount |-> shown.totalCount ]
    /\ UNCHANGED component

\* goToPage(currentPage + 1), and the call the watcher makes runs to its end
\* without a failing query
TurnPage ==
    /\ probe.kind = "order"
    /\ probe.stage = "done"
    /\ PageAccepted(probe.env.currentPage + 1, TotalPagesOf(probe.totalCount))
    /\ LET env == [ probe.env EXCEPT !.currentPage = @ + 1 ]
       IN  \E shown \in Outcomes(probe.st, env) :
               probe' = [ kind |-> "order", stage |-> "turned", st |-> probe.st, env |-> env,
                          call |-> LastCall(probe.st, env),
                          rows |-> shown.rows, totalCount |-> shown.totalCount,
                          before |-> [ rows |-> probe.rows, totalCount |-> probe.totalCount ] ]
    /\ UNCHANGED component

\* applyFilters, and the call it makes runs to its end without a failing query
Commit ==
    /\ probe.kind = "commit"
    /\ probe.stage \in { "input", "once" }
    /\ LET env == Env(DeepCopy(probe.pendingFilters).value, probe.env.searchQuery, 1,
                      probe.env.facets)
       IN  \E shown \in Outcomes(probe.st, env) :
               probe' = [ kind |-> "commit",
                          stage |-> IF probe.stage = "input" THEN "once" ELSE "twice",
                          st |-> probe.st, pendingFilters |-> probe.pendingFilters,
                          env |-> env,
                          pageBefore |-> probe.env.currentPage,
                          call |-> LastCall(probe.st, env),
                          rows |-> shown.rows, totalCount |-> shown.totalCount,
                          before |-> IF probe.stage = "input" THEN << >>
                                     ELSE << [ call |-> probe.call, rows |-> probe.rows,
                                               totalCount |-> probe.totalCount,
                                               pageBefore |-> probe.pageBefore ] >> ]
    /\ UNCHANGED component

NextQuery ==
    \/ Query
    \/ Commit
    \/ TurnPage

SpecQuery == InitQuery /\ [][NextQuery]_vars


(* ------------------------------ properties ----------------------------- *)
\* the fetchSnowboards calls a step starts, and those that return in it
Started == DOMAIN requests' \ DOMAIN requests
Returned == DOMAIN requests \ DOMAIN requests'

\* the values of the refs when request r started, as fetchSnowboards reads them
StartEnv(r) == Env(r.snap.filters, r.snap.searchQuery, r.snap.currentPage, r.facetsAt)

\* C1: last-request-wins. When a call of fetchSnowboards returns after a newer call
\* has been started, its outcome is discarded: the step leaves the displayed rows,
\* totalCount and the error message as they are.
C1_StaleOutcomeDiscarded ==
    [][ \A id \in Returned :
            id < nStarted => UNCHANGED << snowboards, totalCount, error >> ]_vars

\* C2: request-start snapshot. The query a call of fetchSnowboards is waiting for
\* (size, ability-level, terrain-type or main query) carries the predicates built
\* from the applied filters, the search text and the page as they were when that call
\* started, whatever was committed, reset, typed or paged since.
C2_PredicatesFromStartSnapshot ==
    \A id \in InFlight :
        LET r == requests[id]
        IN  r.call = CASE r.pc = "size" -> SizeCall(r.snap.filters)
                       [] r.pc = "ability" -> AbilityCall(r.snap.filters)
                       [] r.pc = "terrain" -> TerrainCall(r.snap.filters)
                       [] r.pc = "main" -> MainCall(r.bm, StartEnv(r))

\* C3: staging is side-effect free. A step that changes the pending snapshot without
\* calling fetchSnowboards (a staging step) leaves the applied snapshot, the page, the
\* rows, totalCount and the status as they are and starts no request; the applied
\* snapshot changes only in a step that starts a commit or reset request; and the
\* request of a page change is built from the applied snapshot.
C3_StagingTouchesPendingOnly ==
    [][ /\ (pendingFilters' # pendingFilters /\ nTriggers' = nTriggers) =>
               UNCHANGED << filters, currentPage, snowboards, totalCount, loading, error,
                            requests, nStarted >>
        /\ filters' # filters =>
               \E id \in Started : requests'[id].trigger \in { "commit", "reset" }
        /\ \A id \in Started :
               requests'[id].trigger = "page" =>
                   requests'[id].call =
                       FetchStart(Env(filters, searchQuery, currentPage', facets)).call ]_vars

\* C3 witness: an ability level was committed and a terrain type staged afterwards
C3_StagedAfterCommit ==
    /\ filters.abilityLevelIds = {1}
    /\ filters.terrainTypeIds = {}
    /\ pendingFilters.abilityLevelIds = {1}
    /\ pendingFilters.terrainTypeIds = {2}

\* C4: commit. The step that starts a commit request makes the applied snapshot equal
\* to the pending one and the page 1, and when a commit request reaches its main
\* query, that query has offset 0 and the predicates of the snapshot applied by
\* that commit.
C4_CommitQueriesItsSnapshot ==
    [][ /\ (\E id \in Started : requests'[id].trigger = "commit") =>
               /\ filters' = pendingFilters
               /\ pendingFilters' = pendingFilters
               /\ currentPage' = 1
        /\ \A id \in DOMAIN requests' :
               LET r == requests'[id]
               IN  ( /\ r.trigger = "commit"
                     /\ r.pc = "main"
                     /\ (id \in InFlight => requests[id].pc # "main") ) =>
                       /\ r.call.from = 0
                       /\ r.call = MainCall(r.bm, Env(r.snap.filters, r.snap.searchQuery,
                                                      1, r.facetsAt)) ]_vars

\* C5: debounce. At most one debounce callback is scheduled at any time, and the step
\* in which it runs sets the page to 1, sends the text of the search box as it is
\* then, and starts at most one request.
C5_DebounceStartsOneQuery ==
    [][ /\ timers' <= 1
        /\ timers' < timers =>
               /\ currentPage' = 1
               /\ \A id \in Started :
                      requests'[id].call.ilike_model_name.term = Trim(searchQuery)
               /\ Cardinality(Started) <= 1 ]_vars

\* C6: a search edit reaches the queries only through its debounced commit. The main
\* query of a request started by commit or by a page change carries the search text
\* of the last debounced commit (or reset) before that request started.
C6_SearchOnlyThroughDebouncedCommit ==
    \A id \in InFlight :
        LET r == requests[id]
        IN  (r.trigger \in { "commit", "page" } /\ r.pc = "main") =>
                r.call.ilike_model_name =
                    MainCall(r.bm, Env(r.snap.filters, r.snap.committedSearch,
                                       r.snap.currentPage, r.facetsAt)).ilike_model_name

\* the all-unconstrained filter state: empty selections, null bounds, flex 1-10,
\* wide false
AllUnconstrained(f) ==
    /\ \A k \in { "brandId", "year", "gender", "profileId", "shapeId", "responseTypeId",
                  "abilityLevelIds", "terrainTypeIds" } : f[k] = {}
    /\ \A k \in { "priceMin", "priceMax", "sizeMin", "sizeMax", "riderWeightMin",
                  "riderWeightMax" } : f[k] = Null
    /\ f.flexMin = 1 /\ f.flexMax = 10
    /\ f.wide = FALSE

\* a main query without id restriction, search predicate or single-valued predicate
NoPredicate(c) ==
    /\ c.kind = "main"
    /\ ~c.in_id.restricted
    /\ ~c.ilike_model_name.on
    /\ \A k \in { "in_brand_name", "in_profile", "in_shape", "in_response_type",
                  "in_model_year", "in_gender" } : ~c[k].on
    /\ \A k \in { "gte_flex_rating", "lte_flex_rating", "gte_msrp", "lte_msrp" } :
           c[k] = Null

\* C7: reset. The step that starts a reset request leaves both snapshots
\* all-unconstrained, the search box empty and the page 1, and every request it
\* starts is at its main query, which has offset 0, no id restriction and no
\* search or single-valued predicate.
C7_ResetRestoresDefault ==
    [][ (\E id \in Started : requests'[id].trigger = "reset") =>
            /\ AllUnconstrained(filters')
            /\ AllUnconstrained(pendingFilters')
            /\ searchQuery' = << >>
            /\ currentPage' = 1
            /\ \A id \in Started :
                   /\ requests'[id].pc = "main"
                   /\ NoPredicate(requests'[id].call)
                   /\ requests'[id].call.from = 0 ]_vars

\* C7 witness: a reset made from another page than 1 while a search edit was waiting
\* for its debounce; its request is in flight
C7_ResetFromOtherPage ==
    /\ \E id \in InFlight : requests[id].trigger = "reset" /\ requests[id].via = "watch"
    /\ timers = 1
    /\ searchQuery = << >>
    /\ AllUnconstrained(filters) /\ AllUnconstrained(pendingFilters)

\* C8: pagination clamp. goToPage(n) with n < 1 or n > totalPages leaves the page,
\* the rows, totalCount and the status as they are and starts no request.
C8_OutOfRangePageIgnored ==
    [][ lastOp' = "goToPage:outside" =>
            UNCHANGED << currentPage, snowboards, totalCount, loading, error, requests,
                         nStarted >> ]_vars

\* C8 witness: goToPage was called with a page outside 1..2 on the last of two pages
C8_IgnoredOnLastPage ==
    /\ lastOp = "goToPage:outside"
    /\ totalPages = 2
    /\ currentPage = 2

\* C9: accepted page change. The step of an accepted goToPage(n) starts exactly one
\* request and moves the status to loading; the main query of that request is built
\* from the filters and the page n of its start (offset (n - 1) * 12); and when it
\* returns rows as the newest request, the status becomes ready.
C9_PageChangeResolves ==
    [][ /\ \A id \in Started :
               requests'[id].trigger = "page" =>
                   /\ Started = { id }
                   /\ currentPage' # currentPage
                   /\ Status' = "loading"
        /\ \A id \in Returned :
               LET r == requests[id]
               IN  (r.trigger = "page" /\ r.pc = "main") =>
                       /\ r.call.from = (r.snap.currentPage - 1) * 12
                       /\ r.call = MainCall(r.bm, StartEnv(r))
                       /\ (id = nStarted /\ snowboards' # << >>) => Status' = "ready" ]_vars

\* C10: no flash-to-empty. The rows and totalCount change only in a step in which a
\* request returns without failing, and never while another request that was started
\* before the step is still in flight.
C10_RowsReplacedOnlyByResult ==
    [][ << snowboards, totalCount >>' # << snowboards, totalCount >> =>
            /\ Returned # {}
            /\ error' = error
            /\ InFlight \cap DOMAIN requests' = {} ]_vars

\* the positions of a request at one of the three sub-queries
SubQueries == { "size", "ability", "terrain" }

\* the board ids the rows matching the sub-query of request r name
FoundBy(r) ==
    CASE r.pc = "size" -> { x.board_model_id : x \in SizeData(store, r.call) }
      [] r.pc = "ability" -> { x.board_model_id : x \in AbilityData(store, r.call) }
      [] r.pc = "terrain" -> { x.board_model_id : x \in TerrainData(store, r.call) }

\* the ids resolved so far once the sub-query of request r has answered
ResolvedSoFar(r) == IF r.bm.restricted THEN r.bm.ids \cap FoundBy(r) ELSE FoundBy(r)

\* the step is the return of the query request id is waiting for
Answered(id) == id \notin DOMAIN requests' \/ requests'[id] # requests[id]

\* at least one multi-row facet of f is constrained
MultiRowConstrained(f) ==
    \/ \E k \in { "sizeMin", "sizeMax", "riderWeightMin", "riderWeightMax" } : f[k] # Null
    \/ f.wide = TRUE
    \/ f.abilityLevelIds # {}
    \/ f.terrainTypeIds # {}

\* C11: state unchanged on failure. A step in which a query of a request returns an
\* error leaves the displayed rows and totalCount as they are.
C11_FailureKeepsRows ==
    [][ lastOp' = "failed" => UNCHANGED << snowboards, totalCount >> ]_vars

\* C12: empty-restriction short-circuit. When the sub-query a request is waiting for
\* answers and the ids resolved so far (the ids it found, intersected with the ids of
\* the sub-queries before it) are empty, the request ends in that step with rows = []
\* and totalCount = 0: it sends no further sub-query and no main query.
C12_EmptyRestrictionShortCircuits ==
    [][ \A id \in InFlight :
            ( /\ requests[id].pc \in SubQueries
              /\ Answered(id)
              /\ ResolvedSoFar(requests[id]) = {} ) =>
                /\ DOMAIN requests' = InFlight \ { id }
                /\ snowboards' = << >>
                /\ totalCount' = 0 ]_vars

\* C12 witness: terrain type 3, which no board has, was applied and its request has
\* ended without an error and without rows
C12_TerrainWithoutBoards ==
    /\ filters.terrainTypeIds = {3}
    /\ InFlight = {} /\ nStarted = 2
    /\ Status = "ready"
    /\ snowboards = << >> /\ totalCount = 0

\* C13: unrestricted is not empty. A request sends a sub-query only if a multi-row
\* facet is constrained in the filters it started with, its main query carries an id
\* filter exactly in that case, and the id filter is never the empty set.
C13_IdFilterIffConstrained ==
    \A id \in InFlight :
        LET r == requests[id]
        IN  /\ r.pc \in SubQueries => MultiRowConstrained(r.snap.filters)
            /\ r.pc = "main" =>
                   /\ r.call.in_id.restricted <=> MultiRowConstrained(r.snap.filters)
                   /\ r.call.in_id.restricted => r.call.in_id.ids # {}
                   /\ ~r.call.in_id.restricted => r.call.in_id.ids = {}

\* C13 witness: a main query with an id filter for the wide flag and an ability level
C13_MainQueryWithIdFilter ==
    \E id \in InFlight :
        /\ requests[id].pc = "main"
        /\ requests[id].call.in_id.restricted
        /\ requests[id].snap.filters.wide = TRUE
        /\ requests[id].snap.filters.abilityLevelIds = {1}

\* C14: a sub-query failure aborts the pipeline. A step in which a query returns an
\* error ends exactly the request that waited for it and starts nothing; when it was
\* a sub-query, the status becomes error with the one message and no row is shown.
C14_SubQueryFailureAborts ==
    [][ lastOp' = "failed" =>
            \E id \in InFlight :
                /\ DOMAIN requests' = InFlight \ { id }
                /\ requests[id].pc \in SubQueries =>
                       /\ Status' = "error"
                       /\ error' = FailedMessage
                       /\ snowboards' = << >> ]_vars

\* C14 witness: the request for terrain type 3 (which can only end at its terrain
\* sub-query) has failed
C14_TerrainSubQueryFailed ==
    /\ lastOp = "failed"
    /\ filters.terrainTypeIds = {3}
    /\ ~HasSizeFilters(filters) /\ filters.abilityLevelIds = {}
    /\ nStarted = 2

\* the three blocks with the terrain-type block before the ability-level block
ResolveTerrainFirst(st, f) ==
    AbilityBlock(st, f, TerrainBlock(st, f, SizeBlock(st, f, Unresolved)))

\* C15: for every store and every selection of ability levels and terrain types,
\* with or without a size restriction, resolving ability level then terrain type
\* gives the same early-return outcome and, when no block returns early, the same
\* final id set as resolving terrain type then ability level.
C15_IntersectionOrderIndependent ==
    (probe.kind = "junction" /\ probe.stage = "done") =>
        LET r == ResolveTerrainFirst(probe.st, probe.env.filters)
        IN  /\ r.empty = probe.resolved.empty
            /\ ~r.empty => r.bm = probe.resolved.bm

\* C15 witness: ability levels and terrain types are both selected, their id sets
\* differ, and the intersection is not empty.
C15_BothSelectedAndNarrowed ==
    /\ probe.kind = "junction" /\ probe.stage = "done"
    /\ probe.env.filters.abilityLevelIds = {1}
    /\ probe.env.filters.terrainTypeIds = {1}
    /\ UniqueBoardIds(AbilityData(probe.st, AbilityCall(probe.env.filters)))
         # UniqueBoardIds(TerrainData(probe.st, TerrainCall(probe.env.filters)))
    /\ ~probe.resolved.empty
    /\ probe.resolved.bm.ids = {1}

\* values a facet may be constrained to
FacetValues ==
    [ abilityLevelIds |-> { {1}, {2}, {1, 2} },
      terrainTypeIds  |-> { {1}, {3} },
      wide            |-> { TRUE },
      sizeMin         |-> { 155, 170 },
      riderWeightMax  |-> { 120 },
      brandId         |-> { {1}, {2}, {9} },
      profileId       |-> { {2} },
      shapeId         |-> { {1} },
      responseTypeId  |-> { {2} },
      year            |-> { {2026} },
      gender          |-> { {"Womens"} },
      priceMin        |-> { 200 },
      priceMax        |-> { 300 },
      flexMin         |-> { 5 },
      flexMax         |-> { 5 } ]

\* the facets of f that are unconstrained (the flex range counts as one facet)
UnconstrainedFacets(f) ==
    { k \in DOMAIN FacetValues :
        /\ f[k] = createDefaultFilters[k]
        /\ k \in { "flexMin", "flexMax" } => IsDefaultFlexRange(f) }

\* the filter states that constrain exactly one facet more than f
OneMoreConstrained(f) ==
    UNION { { [ f EXCEPT ![k] = v ] : v \in FacetValues[k] } : k \in UnconstrainedFacets(f) }

\* C16: for every store and every filter state, a call with one more facet
\* constrained (all other fields unchanged) never ends with a larger totalCount.
C16_OneMoreFacetNeverMore ==
    (probe.kind \in { "junction", "facets" } /\ probe.stage = "done") =>
        \A g \in OneMoreConstrained(probe.env.filters) :
            \A o \in Outcomes(probe.st, [ probe.env EXCEPT !.filters = g ]) :
                o.totalCount <= probe.totalCount

\* C16 witness: a call with a price floor counted some boards, and one more
\* constrained facet leaves fewer of them, but not none.
C16_FewerButSome ==
    /\ probe.kind = "facets" /\ probe.stage = "done"
    /\ probe.env.filters = [ createDefaultFilters EXCEPT !.priceMin = 200 ]
    /\ probe.env.facets # EmptyFacets
    /\ \E g \in OneMoreConstrained(probe.env.filters) :
           \E o \in Outcomes(probe.st, [ probe.env EXCEPT !.filters = g ]) :
               0 < o.totalCount /\ o.totalCount < probe.totalCount

\* C17: two presses of Apply Filters with nothing in between send the same query
\* parameters (page 1, offset 0) and end with the same rows and the same totalCount,
\* whatever the page was before the first press.
C17_CommitTwiceSameResult ==
    (probe.kind = "commit" /\ probe.stage = "twice") =>
        /\ probe.call = probe.before[1].call
        /\ probe.env.currentPage = 1
        /\ probe.call.kind = "main" => probe.call.from = 0
        /\ probe.rows = probe.before[1].rows
        /\ probe.totalCount = probe.before[1].totalCount

Min(a, b) == IF a < b THEN a ELSE b
Max(a, b) == IF a > b THEN a ELSE b

\* the number of boards of st that come before b in name order
Rank(st, b) == Cardinality({ x \in st.boards : TextLess(x.model_name, b.model_name) })

\* C18: a successful call at page p over a population of N boards ends with
\* totalCount = N, totalPages = ceil(N / 12), and min(12, max(0, N - (p-1)*12)) rows,
\* which are the boards at the zero-based offsets (p-1)*12, (p-1)*12 + 1, ... of the
\* name order; with N = 25 there are 3 pages and page 3 has exactly 1 row.
C18_PageSlice ==
    (probe.kind = "pages" /\ probe.stage = "done") =>
        LET N == Cardinality(probe.st.boards)
            p == probe.env.currentPage
            pages == TotalPagesOf(probe.totalCount)
        IN  /\ probe.totalCount = N
            /\ pages * 12 >= N /\ (pages - 1) * 12 < N
            /\ Len(probe.rows) = Min(12, Max(0, N - (p - 1) * 12))
            /\ Len(probe.rows) <= 12
            /\ \A k \in 1..Len(probe.rows) :
                   \E b \in probe.st.boards :
                       b.id = probe.rows[k].id /\ Rank(probe.st, b) = (p - 1) * 12 + k - 1
            /\ N = 25 => (pages = 3 /\ (p = 3 => Len(probe.rows) = 1))

\* C18 witness: page 3 of 25 boards.
C18_LastPageOfTwentyFive ==
    /\ probe.kind = "pages" /\ probe.stage = "done"
    /\ Cardinality(probe.st.boards) = 25
    /\ probe.env.currentPage = 3
    /\ probe.totalCount = 25
    /\ Len(probe.rows) = 1

\* the ids of the rows on display
ShownIds == { probe.rows[k].id : k \in 1..Len(probe.rows) }

\* C21: the price range is open-ended and inclusive. The lower bound is sent iff
\* priceMin is not null and the upper bound iff priceMax is not null, and the call
\* counts and shows exactly the boards with (priceMin null or msrp >= priceMin) and
\* (priceMax null or msrp <= priceMax); over boards priced 150, 300 and 600,
\* priceMin = 200 and priceMax = 500 give the board priced 300 and totalCount = 1.
C21_PriceRangeOpenEnded ==
    (probe.kind = "price" /\ probe.stage = "done") =>
        LET f == probe.env.filters
            qualifying ==
                { b \in probe.st.boards :
                    /\ f.priceMin = Null \/ (b.msrp # Null /\ b.msrp >= f.priceMin)
                    /\ f.priceMax = Null \/ (b.msrp # Null /\ b.msrp <= f.priceMax) }
        IN  /\ probe.call.gte_msrp = f.priceMin
            /\ probe.call.lte_msrp = f.priceMax
            /\ probe.totalCount = Cardinality(qualifying)
            /\ ShownIds = { b.id : b \in qualifying }
            /\ (probe.st = PagedStore(3) /\ f.priceMin = 200 /\ f.priceMax = 500) =>
                   /\ probe.totalCount = 1
                   /\ Len(probe.rows) = 1
                   /\ probe.rows[1].msrp = 300

\* C21 witness: prices 150, 300 and 600 with priceMin = 200 and priceMax = 500.
C21_OnlyThreeHundred ==
    /\ probe.kind = "price" /\ probe.stage = "done"
    /\ { b.msrp : b \in probe.st.boards } = { 150, 300, 600 }
    /\ probe.env.filters.priceMin = 200 /\ probe.env.filters.priceMax = 500
    /\ probe.totalCount = 1
    /\ probe.rows[1].msrp = 300

\* some size, rider-weight or wide constraint is present
SizeConstrained(f) ==
    \/ f.sizeMin # Null \/ f.sizeMax # Null
    \/ f.riderWeightMin # Null \/ f.riderWeightMax # Null
    \/ f.wide = TRUE

\* one size satisfies every present bound of f (rider weight by overlap)
VariantQualifies(v, f) ==
    /\ f.sizeMin = Null \/ v.size_cm >= f.sizeMin
    /\ f.sizeMax = Null \/ v.size_cm <= f.sizeMax
    /\ f.riderWeightMin = Null \/ v.rider_weight_max_lbs >= f.riderWeightMin
    /\ f.riderWeightMax = Null \/ v.rider_weight_min_lbs <= f.riderWeightMax
    /\ f.wide = TRUE => v.wide = TRUE

\* the owners of at least one qualifying size
SizeOwners(st, f) == { v.board_model_id : v \in { x \in st.sizes : VariantQualifies(x, f) } }

AbilityOwners(st, f) ==
    { a.board_model_id : a \in { x \in st.ability : x.ability_level_id \in f.abilityLevelIds } }

TerrainOwners(st, f) ==
    { t.board_model_id : t \in { x \in st.terrain : x.terrain_type_id \in f.terrainTypeIds } }

\* the intersection over the constrained multi-row facets
Allowed(st, f) ==
    { i \in { b.id : b \in st.boards } :
        /\ SizeConstrained(f) => i \in SizeOwners(st, f)
        /\ f.abilityLevelIds # {} => i \in AbilityOwners(st, f)
        /\ f.terrainTypeIds # {} => i \in TerrainOwners(st, f) }

\* C22: whenever the main query is sent with an id restriction, the restriction is
\* the intersection, over the constrained multi-row facets, of the owners of a
\* qualifying size, the boards with a selected ability level and the boards with
\* a selected terrain type.
C22_RestrictionIsIntersection ==
    (/\ probe.kind \in { "junction", "size" } /\ probe.stage = "done"
     /\ probe.call.kind = "main" /\ probe.call.in_id.restricted) =>
        probe.call.in_id.ids = Allowed(probe.st, probe.env.filters)

\* C22 witness: the three facets are constrained and the restriction is narrower
\* than the boards with the selected ability level.
C22_ThreeFacetsIntersected ==
    /\ probe.kind = "junction" /\ probe.stage = "done"
    /\ probe.env.filters.wide = TRUE
    /\ probe.env.filters.abilityLevelIds = {2}
    /\ probe.env.filters.terrainTypeIds = {1}
    /\ probe.call.kind = "main"
    /\ probe.call.in_id.ids = {1}
    /\ AbilityOwners(probe.st, probe.env.filters) = Items

\* C23: the size restriction is evaluated per size. With a size, rider-weight or
\* wide constraint present, a board is shown iff one single size of it satisfies
\* all present bounds together; a board whose sizes satisfy them only separately,
\* or that has no size, is not shown.
C23_OneSizeMeetsAllBounds ==
    (probe.kind = "size" /\ probe.stage = "done" /\ SizeConstrained(probe.env.filters)) =>
        /\ \A b \in probe.st.boards :
               b.id \in ShownIds <=>
                   \E v \in probe.st.sizes :
                       v.board_model_id = b.id /\ VariantQualifies(v, probe.env.filters)
        /\ probe.totalCount = Cardinality(ShownIds)

\* C23 witness: board 1 has a size within sizeMax and another that is wide, none
\* that is both, and board 2 has a wide size within no bound; nothing is shown.
C23_BoundsMetSeparately ==
    /\ probe.kind = "size" /\ probe.stage = "done"
    /\ probe.env.filters = [ createDefaultFilters EXCEPT !.sizeMax = 150, !.wide = TRUE ]
    /\ Cardinality({ v \in probe.st.sizes : v.board_model_id = 1 }) = 2
    /\ { v \in probe.st.sizes : v.board_model_id = 2 } = {}
    /\ probe.totalCount = 0
    /\ probe.rows = << >>

\* C24: rider weight is filtered by overlap. With only rider-weight bounds present
\* a board is shown iff one of its sizes has rider_weight_max >= the requested
\* minimum (if any) and rider_weight_min <= the requested maximum (if any); with
\* only size bounds present, iff one of its sizes has size_cm >= sizeMin (if any)
\* and size_cm <= sizeMax (if any).
C24_RiderWeightByOverlap ==
    (probe.kind = "size" /\ probe.stage = "done") =>
        LET f == probe.env.filters
            sizesOf(i) == { v \in probe.st.sizes : v.board_model_id = i }
        IN  /\ (/\ f.sizeMin = Null /\ f.sizeMax = Null /\ f.wide = FALSE
                /\ (f.riderWeightMin # Null \/ f.riderWeightMax # Null)) =>
                   \A b \in probe.st.boards :
                       b.id \in ShownIds <=>
                           \E v \in sizesOf(b.id) :
                               /\ f.riderWeightMin = Null
                                    \/ v.rider_weight_max_lbs >= f.riderWeightMin
                               /\ f.riderWeightMax = Null
                                    \/ v.rider_weight_min_lbs <= f.riderWeightMax
            /\ (/\ f.riderWeightMin = Null /\ f.riderWeightMax = Null /\ f.wide = FALSE
                /\ (f.sizeMin # Null \/ f.sizeMax # Null)) =>
                   \A b \in probe.st.boards :
                       b.id \in ShownIds <=>
                           \E v \in sizesOf(b.id) :
                               /\ f.sizeMin = Null \/ v.size_cm >= f.sizeMin
                               /\ f.sizeMax = Null \/ v.size_cm <= f.sizeMax

\* C24 witness: the requested range 120..139 overlaps the range 100..150 of the
\* only size of board 1 without containing it or being equal to it, and board 1
\* is shown.
C24_OverlapWithoutContainment ==
    /\ probe.kind = "size" /\ probe.stage = "done"
    /\ probe.env.filters =
           [ createDefaultFilters EXCEPT !.riderWeightMin = 120, !.riderWeightMax = 139 ]
    /\ { << v.rider_weight_min_lbs, v.rider_weight_max_lbs >> :
         v \in { x \in probe.st.sizes : x.board_model_id = 1 } } = { << 100, 150 >> }
    /\ 1 \in ShownIds

\* C25: with the flex range at its default (1, 10) no flex predicate is sent and
\* the boards without a flex rating are kept; with any other range the call keeps
\* exactly the boards that have a flex rating with flexMin <= flex_rating <= flexMax.
C25_FlexRange ==
    (probe.kind = "flex" /\ probe.stage = "done") =>
        LET f == probe.env.filters
        IN  IF f.flexMin = 1 /\ f.flexMax = 10
            THEN /\ probe.call.gte_flex_rating = Null
                 /\ probe.call.lte_flex_rating = Null
                 /\ ShownIds = { b.id : b \in probe.st.boards }
                 /\ probe.totalCount = Cardinality(probe.st.boards)
            ELSE /\ ShownIds =
                      { b.id : b \in { x \in probe.st.boards :
                          /\ x.flex_rating # Null
                          /\ f.flexMin <= x.flex_rating
                          /\ x.flex_rating <= f.flexMax } }
                 /\ probe.totalCount = Cardinality(ShownIds)

\* C25 witness: the default range, and the board without a flex rating is shown.
C25_DefaultKeepsUnrated ==
    /\ probe.kind = "flex" /\ probe.stage = "done"
    /\ probe.env.filters.flexMin = 1 /\ probe.env.filters.flexMax = 10
    /\ \E k \in 1..Len(probe.rows) : probe.rows[k].flex_rating = Null
    /\ probe.totalCount = 6

\* the canonical names the facet catalog of the store gives the selected ids
SelectedNames(options, selected) == { o.name : o \in { x \in options : x.id \in selected } }

\* the inclusion predicate p is absent for an empty selection, and otherwise
\* present with exactly the given values
SentAs(p, selected, values) == IF selected = {} THEN ~p.on ELSE p.on /\ p.v = values

\* C26: for brand, profile, shape, response type, year and gender, the main query
\* of a request has no predicate for an empty selection and, for a non-empty one,
\* the inclusion predicate on the selected values (for brand, profile, shape and
\* response type: the canonical names of the selected ids); the rows a request
\* ends with all have one of the selected values. This holds for every request,
\* also one started before or without a loaded facet catalog.
C26_SelectionsAreInclusionFilters ==
    [][ \A id \in InFlight :
            requests[id].pc = "main" =>
                LET c == requests[id].call
                    f == requests[id].snap.filters
                    brandNames == SelectedNames(store.facets.brand, f.brandId)
                IN  /\ SentAs(c.in_brand_name, f.brandId, brandNames)
                    /\ SentAs(c.in_profile, f.profileId,
                              SelectedNames(store.facets.profile, f.profileId))
                    /\ SentAs(c.in_shape, f.shapeId,
                              SelectedNames(store.facets.shape, f.shapeId))
                    /\ SentAs(c.in_response_type, f.responseTypeId,
                              SelectedNames(store.facets.response_type, f.responseTypeId))
                    /\ SentAs(c.in_model_year, f.year, f.year)
                    /\ SentAs(c.in_gender, f.gender, f.gender)
                    /\ (id \notin DOMAIN requests' /\ lastOp' # "failed") =>
                           \A k \in 1..Len(snowboards') :
                               /\ f.brandId # {} => snowboards'[k].brand.name \in brandNames
                               /\ f.gender # {} => snowboards'[k].gender \in f.gender ]_vars

\* C26 witness: a request is at its main query with brand 1 translated to its
\* name and a gender selected.
C26_BrandTranslated ==
    \E id \in InFlight :
        /\ requests[id].pc = "main"
        /\ requests[id].snap.filters.brandId = {1}
        /\ requests[id].snap.filters.gender = {"Womens"}
        /\ requests[id].call.in_brand_name = In({"Burton"})
        /\ requests[id].call.in_gender = In({"Womens"})

\* the number of boards of st that come before b by name, then by id
RankWithTieBreak(st, b) ==
    Cardinality({ x \in st.boards :
                    \/ TextLess(x.model_name, b.model_name)
                    \/ (/\ ~TextLess(b.model_name, x.model_name) /\ x.id < b.id) })

\* C27: rows are ordered by model name with the id as tie-break, so a page holds
\* the boards at its offsets of that one order whenever it is requested, and two
\* successive pages neither repeat nor skip a board, also when boards share a name.
C27_DeterministicOrdering ==
    (probe.kind = "order" /\ probe.stage \in { "done", "turned" }) =>
        /\ \A k \in 1..Len(probe.rows) :
               \E b \in probe.st.boards :
                   /\ b.id = probe.rows[k].id
                   /\ RankWithTieBreak(probe.st, b) = probe.call.from + k - 1
        /\ probe.stage = "turned" =>
               LET first == { probe.before.rows[k].id : k \in 1..Len(probe.before.rows) }
               IN  /\ first \cap ShownIds = {}
                   /\ first \cup ShownIds = { b.id : b \in probe.st.boards }

\* the place of a network call in the order of one request
StepIndex(pc) ==
    CASE pc = "size" -> 1 [] pc = "ability" -> 2 [] pc = "terrain" -> 3 [] pc = "main" -> 4

\* C28: within one request the calls are issued in the order size, ability level,
\* terrain type, main query. A request waits for exactly one call, the one of its
\* position; it moves on only in the step in which that call returns, and then to
\* a later call; rows are projected only in a step in which a main query returns.
C28_StepOrder ==
    [][ /\ \A id \in InFlight : requests[id].call.kind = requests[id].pc
        /\ \A id \in InFlight \cap DOMAIN requests' :
               requests'[id] # requests[id] =>
                   /\ StepIndex(requests'[id].pc) > StepIndex(requests[id].pc)
                   /\ \A other \in (InFlight \cap DOMAIN requests') \ { id } :
                          requests'[other] = requests[other]
                   /\ Started = {}
        /\ (snowboards' # snowboards /\ snowboards' # << >>) =>
               \E id \in Returned : requests[id].pc = "main" ]_vars

\* C28 witness: a request has gone through the three sub-queries and waits for
\* its main query.
C28_AfterThreeSubQueries ==
    \E id \in InFlight :
        /\ requests[id].pc = "main"
        /\ requests[id].snap.filters.wide = TRUE
        /\ requests[id].snap.filters.abilityLevelIds = {1}
        /\ requests[id].snap.filters.terrainTypeIds = {2}
        /\ requests[id].call.in_id.restricted
        /\ requests[id].call.in_id.ids # {}

\* a range of f has its lower bound above its upper bound
Inverted(f) ==
    \/ f.priceMin # Null /\ f.priceMax # Null /\ f.priceMin > f.priceMax
    \/ f.sizeMin # Null /\ f.sizeMax # Null /\ f.sizeMin > f.sizeMax
    \/ f.flexMin > f.flexMax

\* C29: inverted bounds are accepted. A request committed with a range whose
\* minimum exceeds its maximum runs, and when no query of it fails it ends in the
\* ready status with rows = [] and totalCount = 0.
C29_InvertedBoundsGiveEmptyResult ==
    [][ \A id \in Returned :
            (Inverted(requests[id].snap.filters) /\ lastOp' # "failed") =>
                /\ Status' = "ready"
                /\ snowboards' = << >>
                /\ totalCount' = 0 ]_vars

\* the step starts a request as a trigger does: no request returns or goes on in it
TriggerStep ==
    /\ Returned = {}
    /\ \A id \in InFlight : requests'[id] = requests[id]

\* the step is a commit, a reset or an accepted page change
UserActionStep ==
    \/ filters' = pendingFilters /\ currentPage' = 1
    \/ filters' = createDefaultFilters /\ pendingFilters' = createDefaultFilters
                                       /\ currentPage' = 1
    \/ currentPage' # currentPage

\* the step is the expiry of the debounce of a search edit
DebounceStep == timers' < timers

\* the step is the initial load, started once the filter options have been asked for
InitialLoadStep == mountPc' # mountPc

\* C30 as stated: no automatic retry. While the error message is set, a request is
\* started only by a user action (a commit, a reset, an accepted page change or a
\* search edit, whose request starts when its debounce expires), and the error
\* message stays set until a step that starts a request.
C30_StartedOnlyByUserAction ==
    [][ error = FailedMessage =>
            /\ Started # {} => (TriggerStep /\ (UserActionStep \/ DebounceStep))
            /\ error' # error => (Started # {} /\ error' = NoError) ]_vars

\* C30 as amended: while the error message is set, a request is started only by a
\* user action, by the expiry of a search edit's debounce or by the initial load
\* at mount, never by the step in which a request returns; the error message
\* stays set until a step that starts a request, which clears it.
C30_NoAutomaticRetry ==
    [][ error = FailedMessage =>
            /\ Started # {} =>
                   (TriggerStep /\ (UserActionStep \/ DebounceStep \/ InitialLoadStep))
            /\ error' # error => (Started # {} /\ error' = NoError) ]_vars

\* C30 witness: a request has failed, the user has then edited the search box,
\* and while the debounce runs the error status stands with nothing in flight
C30_ErrorStandsWhileDebouncing ==
    /\ Status = "error"
    /\ error = FailedMessage
    /\ InFlight = {}
    /\ timers > 0
    /\ lastOp = "other"

\* C31: exactly one request per trigger. The step of a commit, of a reset or of a
\* firing of the debounced search commit starts exactly one request, whatever the
\* current page was before it.
C31_OneRequestPerTrigger ==
    [][ (\E id \in Started : requests'[id].trigger \in { "commit", "reset", "search" }) =>
            Cardinality(Started) = 1 ]_vars

\* C32: loading reflects outstanding work. In every reachable state the loading flag
\* is true (the status is loading) if and only if at least one request is in
\* flight.
C32_LoadingIffInFlight == (loading /\ Status = "loading") <=> (InFlight # {})

\* C33: page within range. In every reachable state in which no request is in
\* flight and totalCount > 0, the current page lies between 1 and totalPages
\* (stated for the states that display rows, so that it does not rest on the
\* answer of the store to an offset beyond the count).
C33_PageWithinRange ==
    (InFlight = {} /\ totalCount > 0 /\ snowboards # << >>) =>
        (1 <= currentPage /\ currentPage <= totalPages)

\* C34: every request terminates. When each network call
\* eventually returns, every started request eventually completes, and whenever no
\* request is in flight the status is ready or error, never loading.
C34_EveryRequestTerminates ==
    /\ \A id \in RequestIds : (id \in InFlight) ~> (id \notin InFlight)
    /\ [](InFlight = {} => (Status \in { "ready", "error" } /\ ~loading))

\* C34 witness: two requests were started, the last network call to return failed,
\* and nothing is in flight
C34_AllCompletedAfterFailure ==
    /\ nStarted >= 2
    /\ InFlight = {}
    /\ lastOp = "failed"
    /\ Status = "error"

\* C35: reset supersedes a pending debounced search. When the step of a reset is
\* over, no debounce callback is left scheduled (none can start a request later
\* without a further user action), the requests the reset started carry no search
\* text, and from page 1 the reset started exactly one request.
C35_ResetSupersedesDebounce ==
    [][ (\E id \in Started : requests'[id].trigger = "reset") =>
            /\ timers' = 0
            /\ \A id \in Started : ~requests'[id].call.ilike_model_name.on
            /\ currentPage = 1 => Cardinality(Started) = 1 ]_vars

\* rows corresponds to data one to one and in order, each row with the source row's
\* top-level columns, the four names nested and null nested ids
Projects(rows, data) ==
    /\ Len(rows) = Len(data)
    /\ \A k \in 1..Len(data) :
           LET r == rows[k]
               b == data[k]
           IN  /\ DOMAIN r = { "id", "model_name", "model_year", "flex_rating", "gender",
                               "msrp", "image_url", "brand", "profile", "shape",
                               "response_type" }
               /\ r.id = b.id
               /\ r.model_name = b.model_name
               /\ r.model_year = b.model_year
               /\ r.flex_rating = b.flex_rating
               /\ r.gender = b.gender
               /\ r.msrp = b.msrp
               /\ r.image_url = b.image_url
               /\ r.brand.name = b.brand_name
               /\ r.profile.standard_name = b.profile
               /\ r.shape.standard_name = b.shape
               /\ r.response_type.standard_name = b.response_type
               /\ r.brand.id = Null /\ r.profile.id = Null
               /\ r.shape.id = Null /\ r.response_type.id = Null

\* C36: result projection. When a main query returns without failing, the displayed
\* rows correspond one to one and in order to the rows of an answer of the store to
\* that query, with the top-level columns kept, the brand, profile, shape and
\* response type names nested, and null nested surrogate ids.
C36_ResultProjection ==
    [][ \A id \in Returned :
            (requests[id].pc = "main" /\ lastOp' # "failed") =>
                \E answer \in MainData(store, requests[id].call) :
                    /\ Projects(snowboards', answer.data)
                    /\ totalCount' = answer.count ]_vars

\* C36 witness: a page of several rows is displayed, among them the board without
\* flex rating, whose null rating and nested brand name are shown
C36_UnratedBoardDisplayed ==
    /\ InFlight = {}
    /\ Status = "ready"
    /\ Len(snowboards) > 1
    /\ \E k \in 1..Len(snowboards) :
           /\ snowboards[k].id = 5
           /\ snowboards[k].flex_rating = Null
           /\ snowboards[k].brand = [ id |-> Null, name |-> "Burton" ]

\* C19: the current page is at least 1 in every reachable state.
C19_PageAtLeastOne == currentPage >= 1

\* C19 witness: after a request has failed (totalCount 0, so totalPages 0) a
\* goToPage outside the range was tried
C19_NoPagesAfterError ==
    /\ lastOp = "goToPage:outside"
    /\ totalCount = 0 /\ totalPages = 0
    /\ Status = "error"
    /\ currentPage = 1

\* C20: an empty restriction is not an error. A request that ends at a sub-query
\* without a failure (a short-circuit) leaves the status ready with rows = [],
\* totalCount = 0 and no error message; a step in which a query fails leaves the
\* status error with the error message.
C20_ShortCircuitIsNotAnError ==
    [][ /\ \A id \in Returned :
               (requests[id].pc \in SubQueries /\ lastOp' # "failed") =>
                   /\ Status' = "ready"
                   /\ error' = NoError
                   /\ snowboards' = << >>
                   /\ totalCount' = 0
        /\ lastOp' = "failed" => (Status' = "error" /\ error' = FailedMessage) ]_vars

====
